---- MODULE Spec2Model ----
(***************************************************************************)
(* Model of exams/collect_exam_texts.py: the acquisition / extraction /    *)
(* caching pipeline (process_csv) and its ledger merge.                    *)
(*                                                                         *)
(* Strings are sequences of character codes (code points), so that         *)
(* int(year), safe_name(school), the string order used by the ledger sort  *)
(* and the file names f"{year}_{safe}" are computed as the code computes   *)
(* them.  A text is known by its length, by the number of "\r\n" pairs it  *)
(* holds (Path.read_text reads each of them back as one "\n") and by the   *)
(* download_url of the document it was taken from.                         *)
(*                                                                         *)
(* Three specifications: Spec (sequential runs of process_csv, entry by    *)
(* entry), SpecOcr (ocr_pdf step by step: temporary directory, pdftoppm,   *)
(* one tesseract call per page image) and SpecConc (two runs sharing one   *)
(* ledger file, its read and its rewrite as separate steps).               *)
(***************************************************************************)
EXTENDS Integers, Sequences, FiniteSets, TLC

\* ---------------------------------------------------------------- bounds
MaxRuns == 2        \* runs of the program in one behaviour
MaxCat == 2         \* rows of the input catalog
MaxLen == 2         \* longest text; min_len ranges over 0..MaxLen
MaxLimit == 1       \* largest --limit value tried
MaxOffset == 0      \* largest --offset value tried

\* ------------------------------------------------------- program constants
NameMax == 80       \* safe_name: [:80]

\* an absent value (None, a file that does not exist) is the empty sequence,
\* a present one the one-element sequence of it
None == <<>>
Some(x) == <<x>>
Val(o) == o[1]

NoLimit == None    \* --limit default None
NoUrl == "nourl"   \* a pdf file that does not exist

\* ----------------------------------------------------------------- strings
\* "A", "A " (sanitises to "A"), "B"; years "9", "09", "10" and the
\* non-numeric "x"
URLs == {"u1", "u2", "u3"}

RowPool ==
  { [year |-> <<57>>,     school |-> <<65>>,     subject |-> "S", download_url |-> "u1"],
    [year |-> <<57>>,     school |-> <<65, 32>>, subject |-> "S", download_url |-> "u2"],
    [year |-> <<48, 57>>, school |-> <<65>>,     subject |-> "S", download_url |-> "u2"],
    [year |-> <<49, 48>>, school |-> <<66>>,     subject |-> "S", download_url |-> "u3"],
    [year |-> <<120>>,    school |-> <<66>>,     subject |-> "S", download_url |-> "u3"] }

IsDigit(c) == c >= 48 /\ c <= 57

\* int(r["year"]) is defined (no ValueError) for a non-empty digit string
ValidYear(y) == Len(y) > 0 /\ \A k \in 1..Len(y) : IsDigit(y[k])

RECURSIVE IntOf(_)
IntOf(y) == IF y = <<>> THEN 0
            ELSE 10 * IntOf(SubSeq(y, 1, Len(y) - 1)) + (y[Len(y)] - 48)

RECURSIVE StrOf(_)
\* str(n) for n >= 0
StrOf(n) == IF n < 10 THEN <<48 + n>> ELSE StrOf(n \div 10) \o <<48 + (n % 10)>>

RECURSIVE StrLess(_, _)
\* Python's str "<": lexicographic by code point
StrLess(a, b) ==
  IF b = <<>> THEN FALSE
  ELSE IF a = <<>> THEN TRUE
  ELSE IF a[1] # b[1] THEN a[1] < b[1]
  ELSE StrLess(Tail(a), Tail(b))

\* [\w一-鿿-]: the characters the regular expression keeps
Kept(c) == \/ IsDigit(c)
           \/ (c >= 65 /\ c <= 90)
           \/ (c >= 97 /\ c <= 122)
           \/ c = 95
           \/ c = 45
           \/ (c >= 19968 /\ c <= 40959)

RECURSIVE DropRun(_)
DropRun(s) == IF s # <<>> /\ ~Kept(s[1]) THEN DropRun(Tail(s)) ELSE s

RECURSIVE ReSub(_)
\* re.sub(r"[^\w一-鿿-]+", "_", name)
ReSub(s) == IF s = <<>> THEN <<>>
            ELSE IF Kept(s[1]) THEN <<s[1]>> \o ReSub(Tail(s))
            ELSE <<95>> \o ReSub(DropRun(s))

RECURSIVE LStrip(_)
LStrip(s) == IF s # <<>> /\ s[1] = 95 THEN LStrip(Tail(s)) ELSE s

RECURSIVE RStrip(_)
RStrip(s) == IF s # <<>> /\ s[Len(s)] = 95 THEN RStrip(SubSeq(s, 1, Len(s) - 1)) ELSE s

\* .strip("_")
Strip(s) == RStrip(LStrip(s))

Take(s, n) == IF Len(s) <= n THEN s ELSE SubSeq(s, 1, n)

safe_name(name) == Take(Strip(ReSub(name)), NameMax)

\* f"{year}_{safe}": the stem shared by pdf_path and txt_path
Stem(r) == r.year \o <<95>> \o safe_name(r.school)

Stems == {Stem(r) : r \in RowPool}


\* ------------------------------------------------------------------- texts
Text(n, c, u) == [len |-> n, crlf |-> c, url |-> u]

\* Path.write_text(text): the characters are stored as given
write_text(t) == t

\* Path.read_text(): universal newlines, every "\r\n" comes back as one "\n"
read_text(t) == Text(t.len - t.crlf, 0, t.url)

\* ------------------------------------------------------- remote documents
\* What a download_url serves, fixed for a whole behaviour ("unchanged
\* sources") and learnt at the first retrieval: Dead (urlretrieve raises),
\* or a document (kind "doc").  size = 0 is an empty file; fast is the length
\* of the text pdfminer extracts (-1: extract_text raises), crlf the "\r\n"
\* pairs in it; ocr is the length of the text recognised from the rasterised
\* pages (-1: pdftoppm exits non-zero).  The documents tried: an empty
\* file, one that pdfminer cannot read and whose recognition fails or gives
\* MaxLen characters, one whose fast text has MaxLen
\* characters (with or without a "\r\n"; it is never given to the fallback,
\* min_len being at most MaxLen), one whose fast text has MaxLen - 1
\* characters and whose recognition fails, or gives MaxLen - 1 or MaxLen
\* characters.
Unknown == [kind |-> "unknown", size |-> 0, fast |-> -1, crlf |-> 0, ocr |-> -1]
Dead == [kind |-> "dead", size |-> 0, fast |-> -1, crlf |-> 0, ocr |-> -1]

DocPool ==
  { [kind |-> "doc", size |-> 0, fast |-> -1, crlf |-> 0, ocr |-> -1] }
  \cup { [kind |-> "doc", size |-> 1, fast |-> -1, crlf |-> 0, ocr |-> o] : o \in {-1, MaxLen} }
  \cup { [kind |-> "doc", size |-> 1, fast |-> MaxLen - 1, crlf |-> 0, ocr |-> o] :
           o \in {-1, MaxLen - 1, MaxLen} }
  \cup { [kind |-> "doc", size |-> 1, fast |-> MaxLen, crlf |-> c, ocr |-> -1] : c \in {0, 1} }

\* ----------------------------------------------------------------- catalog
Distinct(s) == \A j, k \in 1..Len(s) : j # k => s[j] # s[k]

Catalogs == UNION { {s \in [1..n -> RowPool] : Distinct(s)} : n \in 1..MaxCat }

\* key=lambda r: int(r["year"])
YearLess(a, b) == IntOf(a.year) < IntOf(b.year)

\* the years compared as the strings they are in the file
LedgerLessText(a, b) ==
  \/ StrLess(a.year, b.year)
  \/ a.year = b.year /\ StrLess(a.school, b.school)

\* key=lambda r: (int(r["year"]), r["school"])
LedgerLess(a, b) ==
  \/ IntOf(a.year) < IntOf(b.year)
  \/ IntOf(a.year) = IntOf(b.year) /\ StrLess(a.school, b.school)

\* list.sort(reverse=True) is stable: x goes behind every element whose key
\* is not smaller than its own
InsertCatalog(sorted, x) ==
  LET k == Cardinality({j \in 1..Len(sorted) : ~YearLess(sorted[j], x)})
  IN SubSeq(sorted, 1, k) \o <<x>> \o SubSeq(sorted, k + 1, Len(sorted))

RECURSIVE SortCatalog(_)
\* rows.sort(key=lambda r: int(r["year"]), reverse=True)
SortCatalog(s) ==
  IF s = <<>> THEN <<>>
  ELSE InsertCatalog(SortCatalog(SubSeq(s, 1, Len(s) - 1)), s[Len(s)])

\* a descending sort that is not stable: x goes in front of the elements of
\* equal key
InsertLedgerFront(sorted, x) ==
  LET k == Cardinality({j \in 1..Len(sorted) : LedgerLess(x, sorted[j])})
  IN SubSeq(sorted, 1, k) \o <<x>> \o SubSeq(sorted, k + 1, Len(sorted))

\* list.sort(reverse=True) is stable: x goes behind every element whose key
\* is not smaller than its own
InsertLedger(sorted, x) ==
  LET k == Cardinality({j \in 1..Len(sorted) : ~LedgerLess(sorted[j], x)})
  IN SubSeq(sorted, 1, k) \o <<x>> \o SubSeq(sorted, k + 1, Len(sorted))

RECURSIVE SortLedger(_)
\* merged.sort(key=lambda r: (int(r["year"]), r["school"]), reverse=True)
SortLedger(s) ==
  IF s = <<>> THEN <<>>
  ELSE InsertLedger(SortLedger(SubSeq(s, 1, Len(s) - 1)), s[Len(s)])

\* rows[offset: (offset + limit) if limit else None]
Window(s, offset, limit) ==
  LET stop == IF limit = NoLimit \/ Val(limit) = 0 THEN Len(s)
              ELSE IF offset + Val(limit) < Len(s) THEN offset + Val(limit) ELSE Len(s)
  IN SubSeq(s, offset + 1, stop)

\* ------------------------------------------------------------------ ledger
FieldNames == {"year", "school", "subject", "download_url", "text_file", "method", "text_len"}

\* csv.DictWriter(fieldnames=...).writerow(u) followed by csv.DictReader
CsvRow(u) == [k \in FieldNames |-> u[k]]

\* {**r, "text_file": ..., "method": ..., "text_len": str(len(text))}
Record(r, method, n) ==
  [year |-> r.year, school |-> r.school, subject |-> r.subject,
   download_url |-> r.download_url, text_file |-> Stem(r),
   method |-> method, text_len |-> StrOf(n)]

\* a list in place of the dict: the record is added, nothing is overwritten
UpsertAppend(d, u) == Append(d, u)

\* first write wins: a download_url the dict has keeps its row
UpsertKeep(d, u) ==
  IF \E k \in 1..Len(d) : d[k].download_url = u.download_url THEN d ELSE Append(d, u)

\* existing[u["download_url"]] = u on an insertion-ordered dict
Upsert(d, u) ==
  IF \E k \in 1..Len(d) : d[k].download_url = u.download_url
  THEN [k \in 1..Len(d) |-> IF d[k].download_url = u.download_url THEN u ELSE d[k]]
  ELSE Append(d, u)

RECURSIVE UpsertAll(_, _)
UpsertAll(d, us) == IF us = <<>> THEN d ELSE UpsertAll(Upsert(d, Head(us)), Tail(us))

\* the ledger file is not read: existing stays empty
ReadLedgerNone(led) == <<>>

\* lines 121-125: the rows of the ledger file, keyed by download_url
ReadLedger(led) == UpsertAll(<<>>, led)

\* lines 127-139: overwrite with this run's records, sort, rewrite the file
WriteLedger(existing, us) ==
  LET merged == SortLedger(UpsertAll(existing, us))
  IN [k \in 1..Len(merged) |-> CsvRow(merged[k])]

\* lines 120-139: read the ledger into a dict, overwrite with this run's
\* records, sort, rewrite the file
MergeLedger(led, us) == WriteLedger(ReadLedger(led), us)

\* ------------------------------------------------------------------- state
VARIABLES
  catalog,   \* the rows of the input CSV, in file order
  remote,    \* download_url -> Unknown, Dead or the document it serves
  tools,     \* shutil.which finds pdftoppm and tesseract: "unknown", "found", "missing"
  pdf,       \* pdfs_{out}/: stem -> NoUrl or the download_url whose document it holds
  txt,       \* texts_{out}/: stem -> None or Some(the text written)
  ledger,    \* usable_{out}.csv: the rows as persisted
  pc,        \* "idle", "probe", "fetch", "extract", "ocr", "decide", "merge", "aborted"
  runs,      \* runs started so far
  params,    \* arguments of the current (or last) run
  rows,      \* the sorted, windowed catalog of the current run
  i,         \* index in rows of the entry being processed
  usable,    \* records produced by the current run
  text,      \* text of the current entry
  method,    \* method of the current entry
  cur,       \* history: what was done for the current entry
  hist,      \* history: what was done for the finished entries of this run
  prev,      \* history: arguments, ledger and entries of the previous run;
             \* its ledger is the ledger the current run started from
  \* one invocation of ocr_pdf, step by step
  opc,       \* "idle", "mkdtemp", "pdftoppm", "pages", "returned", "raised"
  tmpdirs,   \* the temporary directories that exist on disk
  ocalls,    \* invocations of ocr_pdf so far
  images,    \* sorted(tmp_dir.glob("page-*.png")): the image names, in loop order
  texts,     \* the list texts
  engine,    \* history: the tesseract invocations of this ocr_pdf call, in order
  ret,       \* None or Some(the string ocr_pdf returned)
  \* two runs of the program on one ledger file
  wpc,       \* process -> "idle", "read", "write"
  wusable,   \* process -> the records its loop produced
  wexisting, \* process -> the rows it read from the ledger file
  accepted,  \* history: the records of the runs that completed
  serial     \* history: no run read the ledger between another run's read and write

mainvars == <<catalog, remote, tools, pdf, txt, ledger, pc, runs, params, rows, i,
              usable, text, method, cur, hist, prev>>

ocrvars == <<opc, tmpdirs, ocalls, images, texts, engine, ret>>

concvars == <<wpc, wusable, wexisting, accepted, serial>>

vars == <<mainvars, ocrvars, concvars>>

Procs == {1, 2}

NoParams == [min_len |-> 0, use_ocr |-> FALSE, offset |-> 0, limit |-> NoLimit]

\* steps: the calls made for the entry, in order ("probe", "fetch" for
\* download_pdf, "net" for urlretrieve, "extract", "ocr"); fails: the calls
\* that raised; hit: the probe succeeded; fast, ocr: the length of the text
\* extract_text_pdf and ocr_pdf returned (-2: not called, -1: raised);
\* wrote: the text file was written
Fresh == [steps |-> <<>>, fails |-> {}, hit |-> FALSE, fast |-> -2, ocr |-> -2, wrote |-> FALSE]

ParamSet == [min_len : 0..MaxLen, use_ocr : BOOLEAN,
             offset : 0..MaxOffset, limit : {NoLimit} \cup {Some(n) : n \in 0..MaxLimit}]

\* the state before the first run, for the catalog c
Start(c) ==
  /\ catalog = c
  /\ remote = [u \in URLs |-> Unknown]
  /\ tools = "unknown"
  /\ pdf = [st \in Stems |-> NoUrl]
  /\ txt = [st \in Stems |-> None]
  /\ ledger = <<>>
  /\ pc = "idle"
  /\ runs = 0
  /\ params = NoParams
  /\ rows = <<>>
  /\ i = 1
  /\ usable = <<>>
  /\ text = None
  /\ method = "none"
  /\ cur = Fresh
  /\ hist = <<>>
  /\ prev = [params |-> NoParams, ledger |-> <<>>, hist |-> <<>>, done |-> FALSE,
             rep |-> FALSE]
  /\ opc = "idle"
  /\ tmpdirs = {}
  /\ ocalls = 0
  /\ images = <<>>
  /\ texts = <<>>
  /\ engine = <<>>
  /\ ret = None
  /\ wpc = [p \in Procs |-> "idle"]
  /\ wusable = [p \in Procs |-> <<>>]
  /\ wexisting = [p \in Procs |-> <<>>]
  /\ accepted = {}
  /\ serial = TRUE

Init == \E c \in Catalogs : Start(c)

\* ------------------------------------------------------------ exception handlers
\* no handler around download_pdf
OnFetchErrorRaise == "raise"
\* lines 100-101: except Exception: continue
OnFetchError == "continue"
\* lines 30-31: except Exception: return ""
OnExtractError == "empty"
\* lines 108-109: except Exception: text = ""
OnOcrError == "empty"
\* line 65: int(r["year"]) raises ValueError, which nothing catches
OnYearError == "raise"

\* the uncaught exception ends the process
Abort ==
  /\ pc' = "aborted"
  /\ UNCHANGED <<rows, i, usable, text, method, cur, hist>>

\* `continue` or the end of the loop body: go to the next row, or to the merge
NextEntry(done, rec) ==
  /\ hist' = Append(hist, [row |-> rows[i], steps |-> done.steps, fails |-> done.fails,
                           hit |-> done.hit, fast |-> done.fast, ocr |-> done.ocr,
                           wrote |-> done.wrote, rec |-> rec])
  /\ cur' = Fresh
  /\ text' = None
  /\ method' = "none"
  /\ i' = i + 1
  /\ pc' = IF i + 1 > Len(rows) THEN "merge" ELSE "probe"
  /\ UNCHANGED rows

\* ----------------------------------------------------------------- actions
\* lines 60-73: load the catalog, sort it by year, take the window
StartRun ==
  /\ pc \in {"idle", "aborted"}
  /\ runs < MaxRuns
  /\ runs' = runs + 1
  /\ prev' = [params |-> params, ledger |-> ledger, hist |-> hist,
              done |-> (pc = "idle" /\ runs > 0),
              rep |-> (pc = "idle" /\ runs > 0 /\ prev.done /\ prev.params = params)]
  /\ \E p \in ParamSet :
       /\ params' = p
       /\ IF \A k \in 1..Len(catalog) : ValidYear(catalog[k].year)
          THEN /\ rows' = Window(SortCatalog(catalog), p.offset, p.limit)
               /\ pc' = IF rows' = <<>> THEN "merge" ELSE "probe"
          ELSE /\ rows' = <<>>
               /\ pc' = IF OnYearError = "raise" THEN "aborted" ELSE "merge"
  /\ i' = 1
  /\ usable' = <<>>
  /\ text' = None
  /\ method' = "none"
  /\ cur' = Fresh
  /\ hist' = <<>>
  /\ UNCHANGED <<catalog, remote, tools, pdf, txt, ledger>>
  /\ UNCHANGED <<ocrvars, concvars>>

\* the probe with > in place of >=
CacheHitStrict(t, min_len) == t # None /\ read_text(Val(t)).len > min_len

\* lines 84-87: the text file exists and what read_text returns is long enough
CacheHit(t, min_len) == t # None /\ read_text(Val(t)).len >= min_len

\* the cache path keeps the default method of line 82
CachedRecordAsPdf(r, t) == Record(r, "pdf", read_text(t).len)

\* lines 88-93: the record of a cache hit
CachedRecord(r, t) == Record(r, "cached", read_text(t).len)

\* the loop body goes on after the cache hit
AfterHitFallThrough == "fallthrough"

\* line 94: continue
AfterHit == "continue"

\* lines 76-96: the cache probe of one row
Probe ==
  /\ pc = "probe"
  /\ LET r == rows[i]
         t == txt[Stem(r)]
         seen == [cur EXCEPT !.steps = Append(@, "probe")]
     IN IF CacheHit(t, params.min_len)
        THEN LET rec == CachedRecord(r, Val(t))
             IN /\ usable' = Append(usable, rec)
                /\ IF AfterHit = "continue"
                   THEN NextEntry([seen EXCEPT !.hit = TRUE], Some(rec))
                   ELSE /\ pc' = "fetch"
                        /\ method' = "pdf"
                        /\ cur' = [seen EXCEPT !.hit = TRUE]
                        /\ UNCHANGED <<rows, i, text, hist>>
        ELSE /\ pc' = "fetch"
             /\ method' = "pdf"
             /\ cur' = seen
             /\ UNCHANGED <<usable, rows, i, text, hist>>
  /\ UNCHANGED <<catalog, remote, tools, pdf, txt, ledger, runs, params, prev>>
  /\ UNCHANGED <<ocrvars, concvars>>

\* download_pdf without the early return of lines 22-23
HasDocumentNever(f) == FALSE

\* line 22: dest.exists() and dest.stat().st_size > 0
HasDocument(f) == f # NoUrl /\ remote[f].size > 0

\* lines 98-101 and 20-24: download_pdf, skipped when the file is there
Fetch ==
  /\ pc = "fetch"
  /\ LET r == rows[i]
         st == Stem(r)
         u == r.download_url
         seen == [cur EXCEPT !.steps = Append(@, "fetch")]
     IN IF HasDocument(pdf[st])
        THEN /\ pc' = "extract"
             /\ cur' = seen
             /\ UNCHANGED <<remote, pdf, rows, i, usable, text, method, hist>>
        ELSE \E d \in (IF remote[u].kind = "unknown" THEN DocPool \cup {Dead} ELSE {remote[u]}) :
               /\ remote' = [remote EXCEPT ![u] = d]
               /\ IF d.kind = "dead"
                  THEN /\ UNCHANGED <<pdf, usable>>
                       /\ IF OnFetchError = "continue"
                          THEN NextEntry([seen EXCEPT !.steps = Append(@, "net"),
                                                      !.fails = @ \cup {"fetch"}], None)
                          ELSE Abort
                  ELSE /\ pdf' = [pdf EXCEPT ![st] = u]
                       /\ pc' = "extract"
                       /\ cur' = [seen EXCEPT !.steps = Append(@, "net")]
                       /\ UNCHANGED <<rows, i, usable, text, method, hist>>
  /\ UNCHANGED <<catalog, tools, txt, ledger, runs, params, prev>>
  /\ UNCHANGED <<ocrvars, concvars>>

\* lines 27-31: extract_text(...) or "", "" when it raises
extract_text_pdf(f) ==
  IF remote[f].fast < 0 THEN Text(0, 0, f) ELSE Text(remote[f].fast, remote[f].crlf, f)

\* the fallback is tried whatever --no-ocr says
NeedsOcrAlways(t, p) == t.len < p.min_len

\* line 104: the fallback is tried
NeedsOcr(t, p) == t.len < p.min_len /\ p.use_ocr

\* lines 103-104: fast extraction
Extract ==
  /\ pc = "extract"
  /\ LET f == pdf[Stem(rows[i])]
         raised == remote[f].fast < 0
         seen == [cur EXCEPT !.steps = Append(@, "extract")]
     IN IF raised /\ OnExtractError # "empty"
        THEN Abort
        ELSE LET t == extract_text_pdf(f)
             IN /\ text' = Some(t)
                /\ cur' = [seen EXCEPT !.fast = IF raised THEN -1 ELSE t.len,
                                       !.fails = IF raised THEN @ \cup {"extract"} ELSE @]
                /\ pc' = IF NeedsOcr(t, params) THEN "ocr" ELSE "decide"
                /\ UNCHANGED <<rows, i, usable, method, hist>>
  /\ UNCHANGED <<catalog, remote, tools, pdf, txt, ledger, runs, params, prev>>
  /\ UNCHANGED <<ocrvars, concvars>>

\* ocr_pdf without the lookup of lines 35-38
ocr_pdfUnchecked(f, found) == remote[f].ocr

\* lines 34-57: the result of ocr_pdf on the document of f, -1 when it raises
\* (a tool is missing, or pdftoppm exits non-zero)
ocr_pdf(f, found) == IF found # "found" THEN -1 ELSE remote[f].ocr

\* method is left as line 82 set it
OcrMethodUnset == "pdf"

\* line 107: method = "ocr"
OcrMethod == "ocr"

\* lines 105-109: the recognition fallback
Ocr ==
  /\ pc = "ocr"
  /\ \E found \in (IF tools = "unknown" THEN {"found", "missing"} ELSE {tools}) :
       LET f == pdf[Stem(rows[i])]
           n == ocr_pdf(f, found)
           seen == [cur EXCEPT !.steps = Append(@, "ocr"), !.ocr = n]
       IN /\ tools' = found
          /\ IF n < 0
             THEN IF OnOcrError = "empty"
                  THEN /\ text' = Some(Text(0, 0, f))
                       /\ cur' = [seen EXCEPT !.fails = @ \cup {"ocr"}]
                       /\ pc' = "decide"
                       /\ UNCHANGED <<rows, i, usable, method, hist>>
                  ELSE Abort
             ELSE /\ text' = Some(Text(n, 0, f))
                  /\ method' = OcrMethod
                  /\ cur' = seen
                  /\ pc' = "decide"
                  /\ UNCHANGED <<rows, i, usable, hist>>
  /\ UNCHANGED <<catalog, remote, pdf, txt, ledger, runs, params, prev>>
  /\ UNCHANGED <<ocrvars, concvars>>

\* the acceptance test with > in place of >=
AcceptsStrict(t, min_len) == t.len > min_len

\* line 111: the acceptance test
Accepts(t, min_len) == t.len >= min_len

\* lines 111-118: accept (write the text, produce the record) or drop
Decide ==
  /\ pc = "decide"
  /\ LET r == rows[i]
     IN IF Accepts(Val(text), params.min_len)
        THEN LET rec == Record(r, method, Val(text).len)
             IN /\ txt' = [txt EXCEPT ![Stem(r)] = Some(write_text(Val(text)))]
                /\ usable' = Append(usable, rec)
                /\ NextEntry([cur EXCEPT !.wrote = TRUE], Some(rec))
        ELSE /\ NextEntry(cur, None)
             /\ UNCHANGED <<txt, usable>>
  /\ UNCHANGED <<catalog, remote, tools, pdf, ledger, runs, params, prev>>
  /\ UNCHANGED <<ocrvars, concvars>>

\* lines 120-139: merge this run's records into the ledger and rewrite it
Merge ==
  /\ pc = "merge"
  /\ ledger' = MergeLedger(ledger, usable)
  /\ pc' = "idle"
  /\ UNCHANGED <<catalog, remote, tools, pdf, txt, runs, params, rows, i, usable,
                 text, method, cur, hist, prev>>
  /\ UNCHANGED <<ocrvars, concvars>>

Next == StartRun \/ Probe \/ Fetch \/ Extract \/ Ocr \/ Decide \/ Merge

Spec == Init /\ [][Next]_vars

\* --------------------------------------- ocr_pdf, step by step (lines 34-57)
MaxCalls == 2       \* invocations of ocr_pdf in one behaviour
MaxPages == 2       \* most page images pdftoppm writes

\* str.isspace(): the characters .strip() removes
IsSpace(c) == \/ (c >= 9 /\ c <= 13)
              \/ (c >= 28 /\ c <= 32)
              \/ c \in {133, 160, 5760, 8232, 8233, 8239, 8287, 12288}
              \/ (c >= 8192 /\ c <= 8202)

RECURSIVE LStripWs(_)
LStripWs(s) == IF s # <<>> /\ IsSpace(s[1]) THEN LStripWs(Tail(s)) ELSE s

RECURSIVE RStripWs(_)
RStripWs(s) ==
  IF s # <<>> /\ IsSpace(s[Len(s)]) THEN RStripWs(SubSeq(s, 1, Len(s) - 1)) ELSE s

\* .strip()
StripWs(s) == RStripWs(LStripWs(s))

RECURSIVE Join(_)
\* "\n\n".join(texts)
Join(ts) == IF ts = <<>> THEN <<>>
            ELSE IF Len(ts) = 1 THEN ts[1]
            ELSE ts[1] \o <<10, 10>> \o Join(Tail(ts))

RECURSIVE Pad(_, _)
\* the page number, zero-filled to the width of the page count
Pad(d, w) == IF Len(d) >= w THEN d ELSE Pad(<<48>> \o d, w)

\* "page-<k>.png", as pdftoppm names page k of n
ImageName(k, n) ==
  <<112, 97, 103, 101, 45>> \o Pad(StrOf(k), Len(StrOf(n))) \o <<46, 112, 110, 103>>

\* tmp_dir.glob("page-*.png") after pdftoppm wrote n pages: a set, in no order
Glob(n) == {ImageName(k, n) : k \in 1..n}

RECURSIVE sorted(_)
\* sorted(...): ascending by name
sorted(S) ==
  IF S = {} THEN <<>>
  ELSE LET m == CHOOSE x \in S : \A y \in S \ {x} : StrLess(x, y)
       IN <<m>> \o sorted(S \ {m})

\* what one page can give: "", "x", "x\n", "\nx"
PageTexts == {<<>>, <<120>>, <<120, 10>>, <<10, 120>>}

\* one tesseract invocation: it exits (status 0 or not) with its standard
\* output captured, or subprocess.run raises (the program cannot be started,
\* its output cannot be decoded)
Outcomes ==
  {[kind |-> "exit", status |-> st, out |-> t] : st \in {0, 1}, t \in PageTexts}
  \cup {[kind |-> "raise", status |-> 1, out |-> <<>>]}

\* the TemporaryDirectory is kept when its block is left
cleanupNone(dirs, d) == dirs

\* line 40: leaving the with block, by return or by exception, removes the
\* TemporaryDirectory
cleanup(dirs, d) == dirs \ {d}

\* the tesseract call with check=True
PageCheckTrue == TRUE

\* lines 47-55: subprocess.run without check, the exit status is not looked at
PageCheck == FALSE

\* lines 34-38: the call, and the lookup of the two programs
OcrCall ==
  /\ opc \in {"idle", "returned", "raised"}
  /\ ocalls < MaxCalls
  /\ ocalls' = ocalls + 1
  /\ images' = <<>>
  /\ texts' = <<>>
  /\ engine' = <<>>
  /\ ret' = None
  /\ \E found \in {"found", "missing"} :
       opc' = IF found = "found" THEN "mkdtemp" ELSE "raised"
  /\ UNCHANGED <<tmpdirs, mainvars, concvars>>

\* lines 40-42: with tempfile.TemporaryDirectory() as tmp
MkTemp ==
  /\ opc = "mkdtemp"
  /\ tmpdirs' = tmpdirs \cup {ocalls}
  /\ opc' = "pdftoppm"
  /\ UNCHANGED <<ocalls, images, texts, engine, ret, mainvars, concvars>>

\* lines 43-45: pdftoppm with check=True, then the sorted image list
Rasterize ==
  /\ opc = "pdftoppm"
  /\ \E status \in {0, 1}, n \in 0..MaxPages :
       IF status # 0
       THEN /\ tmpdirs' = cleanup(tmpdirs, ocalls)
            /\ opc' = "raised"
            /\ UNCHANGED images
       ELSE /\ images' = sorted(Glob(n))
            /\ opc' = "pages"
            /\ UNCHANGED tmpdirs
  /\ UNCHANGED <<ocalls, texts, engine, ret, mainvars, concvars>>

\* lines 46-56: one turn of the loop over the images
Recognize ==
  /\ opc = "pages"
  /\ Len(texts) < Len(images)
  /\ \E o \in Outcomes :
       LET img == images[Len(texts) + 1]
       IN /\ engine' = Append(engine, [img |-> img, kind |-> o.kind,
                                       status |-> o.status, out |-> o.out])
          /\ IF o.kind = "raise" \/ (PageCheck /\ o.status # 0)
             THEN /\ tmpdirs' = cleanup(tmpdirs, ocalls)
                  /\ opc' = "raised"
                  /\ UNCHANGED texts
             ELSE /\ texts' = Append(texts, o.out)
                  /\ UNCHANGED <<tmpdirs, opc>>
  /\ UNCHANGED <<ocalls, images, ret, mainvars, concvars>>

\* line 57: the end of the loop, the joined and stripped text is returned
Return ==
  /\ opc = "pages"
  /\ Len(texts) = Len(images)
  /\ ret' = Some(StripWs(Join(texts)))
  /\ tmpdirs' = cleanup(tmpdirs, ocalls)
  /\ opc' = "returned"
  /\ UNCHANGED <<ocalls, images, texts, engine, mainvars, concvars>>

NextOcr == OcrCall \/ MkTemp \/ Rasterize \/ Recognize \/ Return

SpecOcr == Start(<<>>) /\ [][NextOcr]_vars

\* ------------------------- two runs of the program on one ledger file
\* The loop of lines 75-118 is taken as a whole: it leaves the run with a
\* list of records.  The rows the records are made from, and the lists tried.
ConcRows == {r \in RowPool : ValidYear(r.year) /\ r.download_url \in {"u1", "u3"}}

UsablePool ==
  {<<>>} \cup {<<Record(r, "pdf", n)>> : r \in ConcRows, n \in 1..MaxLen}

\* lines 60-118: a process starts a run and goes through its entries
RunLoop(p) ==
  /\ wpc[p] = "idle"
  /\ runs < MaxRuns
  /\ runs' = runs + 1
  /\ \E us \in UsablePool : wusable' = [wusable EXCEPT ![p] = us]
  /\ wpc' = [wpc EXCEPT ![p] = "read"]
  /\ UNCHANGED <<catalog, remote, tools, pdf, txt, ledger, pc, params, rows, i,
                 usable, text, method, cur, hist, prev>>
  /\ UNCHANGED <<wexisting, accepted, serial, ocrvars>>

\* lines 120-125: the run reads the ledger file
LedgerRead(p) ==
  /\ wpc[p] = "read"
  /\ wexisting' = [wexisting EXCEPT ![p] = ReadLedger(ledger)]
  /\ serial' = (serial /\ \A q \in Procs \ {p} : wpc[q] # "write")
  /\ wpc' = [wpc EXCEPT ![p] = "write"]
  /\ UNCHANGED <<mainvars, wusable, accepted, ocrvars>>

\* lines 127-139: the run merges its records and rewrites the ledger file
LedgerWrite(p) ==
  /\ wpc[p] = "write"
  /\ ledger' = WriteLedger(wexisting[p], wusable[p])
  /\ accepted' = accepted \cup {wusable[p][k] : k \in 1..Len(wusable[p])}
  /\ wpc' = [wpc EXCEPT ![p] = "idle"]
  /\ UNCHANGED <<catalog, remote, tools, pdf, txt, pc, runs, params, rows, i,
                 usable, text, method, cur, hist, prev>>
  /\ UNCHANGED <<wusable, wexisting, serial, ocrvars>>

NextConc ==
  \/ \E p \in Procs : RunLoop(p)
  \/ \E p \in Procs : LedgerRead(p)
  \/ \E p \in Procs : LedgerWrite(p)

SpecConc == Start(<<>>) /\ [][NextConc]_vars

\* ------------------------------------------------------------ properties
UrlsOf(s) == {s[k].download_url : k \in 1..Len(s)}

\* a run has completed and nothing is in progress
RunDone == pc = "idle" /\ runs > 0

\* the ledger the completed run started from
Before == prev.ledger

\* C1: no two rows of the persisted ledger share a download_url, after every
\* run, whatever the catalog, the window, min_len and the outcomes were
C1_UniqueUrls ==
  \A j, k \in 1..Len(ledger) : j # k => ledger[j].download_url # ledger[k].download_url

\* a completed run that produced a record for a download_url the ledger
\* already had, next to a row of another download_url
C1_Witness ==
  /\ RunDone
  /\ Len(ledger) >= 2
  /\ \E k \in 1..Len(usable) : usable[k].download_url \in UrlsOf(Before)

\* C2: the persisted rows are in non-increasing order of int(year) and, for
\* equal int(year), in non-increasing order of school
C2_Sorted ==
  \A k \in 1..(Len(ledger) - 1) :
    \/ IntOf(ledger[k].year) > IntOf(ledger[k + 1].year)
    \/ /\ IntOf(ledger[k].year) = IntOf(ledger[k + 1].year)
       /\ ~StrLess(ledger[k].school, ledger[k + 1].school)

\* a completed run whose ledger holds a row carried over from an earlier run
\* and a row of this run, of different years
C2_Witness ==
  /\ RunDone
  /\ \E j, k \in 1..Len(ledger) :
       /\ ledger[j].download_url \notin UrlsOf(usable)
       /\ ledger[k].download_url \in UrlsOf(usable)
       /\ IntOf(ledger[j].year) # IntOf(ledger[k].year)

\* the run just completed repeated the previous run: same catalog, same
\* arguments, and every source serves what it served
Repeated == RunDone /\ prev.done /\ prev.params = params

\* C3 as stated: after the repeated run the ledger is the ledger the first
\* run persisted, method and text_len included
C3_Original == Repeated => ledger = Before

\* C3 amended: the repeated run loses no row and accepts again every entry the
\* first run accepted, with the same year, school, subject, download_url and
\* text_file; its method is the first run's or "cached", its text_len the
\* first run's or the smaller length read back from the artifact
C3_Repeat ==
  Repeated =>
    /\ UrlsOf(Before) \subseteq UrlsOf(ledger)
    /\ Len(hist) = Len(prev.hist)
    /\ \A k \in 1..Len(hist) :
         prev.hist[k].rec # None =>
           /\ hist[k].rec # None
           /\ LET a == Val(prev.hist[k].rec)
                  b == Val(hist[k].rec)
              IN /\ \A f \in {"year", "school", "subject", "download_url", "text_file"} : b[f] = a[f]
                 /\ b.method \in {a.method, "cached"}
                 /\ IntOf(b.text_len) <= IntOf(a.text_len)

\* a repeated run that found in the cache an entry the first run had
\* recognised, and one whose artifact reads back shorter than it was written
C3_Witness ==
  /\ Repeated
  /\ \E k \in 1..Len(hist) :
       /\ prev.hist[k].rec # None
       /\ Val(prev.hist[k].rec).method = "ocr"
       /\ Val(hist[k].rec).method = "cached"
  /\ \E k \in 1..Len(hist) :
       /\ prev.hist[k].rec # None
       /\ IntOf(Val(hist[k].rec).text_len) < IntOf(Val(prev.hist[k].rec).text_len)

\* C4: merging the records of the run once more into the ledger it persisted
\* gives that ledger again, row for row and in the same order
C4_MergeIdempotent == RunDone => MergeLedger(ledger, usable) = ledger

\* a completed run with records whose ledger holds two rows of different
\* download_url that tie on (int(year), school)
C4_Witness ==
  /\ RunDone
  /\ usable # <<>>
  /\ \E k \in 1..(Len(ledger) - 1) :
       /\ IntOf(ledger[k].year) = IntOf(ledger[k + 1].year)
       /\ ledger[k].school = ledger[k + 1].school

\* C5: a run that produced one record: a new download_url adds exactly one
\* row; a download_url the ledger had keeps the row count and its row is the
\* new record (method and text_len); every other row is as it was
C5_MergeOne ==
  (RunDone /\ Len(usable) = 1) =>
    LET u == usable[1]
        others(led) == {led[k] : k \in {j \in 1..Len(led) : led[j].download_url # u.download_url}}
    IN /\ u.download_url \notin UrlsOf(Before) => Len(ledger) = Len(Before) + 1
       /\ u.download_url \in UrlsOf(Before) => Len(ledger) = Len(Before)
       /\ \E k \in 1..Len(ledger) :
            /\ ledger[k].download_url = u.download_url
            /\ ledger[k].method = u.method
            /\ ledger[k].text_len = u.text_len
       /\ others(ledger) = others(Before)

\* one record for a download_url whose row had another method and text_len,
\* merged into a ledger that has another row as well
C5_Witness ==
  /\ RunDone
  /\ Len(usable) = 1
  /\ Len(Before) >= 2
  /\ \E k \in 1..Len(Before) :
       /\ Before[k].download_url = usable[1].download_url
       /\ Before[k].method # usable[1].method
       /\ Before[k].text_len # usable[1].text_len

\* the length of the text extract_text_pdf returned for a finished entry
FastLen(h) == IF h.fast < 0 THEN 0 ELSE h.fast

\* the length of the text the acceptance test of a finished entry saw
FinalLen(h) == IF h.ocr = -2 THEN FastLen(h) ELSE IF h.ocr = -1 THEN 0 ELSE h.ocr

Did(h, step) == \E j \in 1..Len(h.steps) : h.steps[j] = step

\* C6: an entry that reached extraction (no cache hit, fetch succeeded) is
\* accepted, its text file written and its record produced, exactly when the
\* final text has min_len characters or more; fast text of exactly min_len
\* characters is accepted as method pdf without the fallback; fast text of
\* min_len - 1 characters goes to the fallback when it is enabled and is
\* rejected when it is not; every record has text_len >= min_len
C6_Threshold ==
  /\ \A k \in 1..Len(hist) :
       LET h == hist[k]
       IN Did(h, "extract") =>
            /\ h.rec # None <=> FinalLen(h) >= params.min_len
            /\ h.rec # None <=> h.wrote
            /\ FastLen(h) = params.min_len =>
                 /\ h.rec # None
                 /\ ~Did(h, "ocr")
                 /\ Val(h.rec).method = "pdf"
                 /\ Val(h.rec).text_len = StrOf(params.min_len)
            /\ FastLen(h) = params.min_len - 1 =>
                 IF params.use_ocr THEN Did(h, "ocr") ELSE h.rec = None /\ ~Did(h, "ocr")
  /\ \A k \in 1..Len(usable) : IntOf(usable[k].text_len) >= params.min_len

\* a run without fallback that accepted an entry whose fast text has exactly
\* min_len characters and rejected one whose fast text has min_len - 1
C6_Witness ==
  /\ RunDone
  /\ ~params.use_ocr
  /\ \E j, k \in 1..Len(hist) :
       /\ Did(hist[j], "extract") /\ hist[j].fast = params.min_len /\ hist[j].rec # None
       /\ Did(hist[k], "extract") /\ hist[k].fast = params.min_len - 1 /\ hist[k].rec = None

\* C7: the probe is the first step of every entry and happens once; a hit
\* (the artifact is there and reads back with min_len characters or more)
\* gives a record with method cached and the length read, and no fetch,
\* extraction or recognition step; the entry goes on to the fetch only when
\* the artifact is missing or reads back shorter than min_len
C7_ProbeFirst ==
  /\ \A h \in {hist[k] : k \in 1..Len(hist)} \cup {cur} :
       /\ h.steps # <<>> => h.steps[1] = "probe"
       /\ \A j \in 2..Len(h.steps) : h.steps[j] # "probe"
  /\ \A k \in 1..Len(hist) :
       LET h == hist[k]
           t == txt[Stem(h.row)]
       IN h.hit =>
            /\ h.steps = <<"probe">>
            /\ t # None
            /\ read_text(Val(t)).len >= params.min_len
            /\ h.rec # None
            /\ Val(h.rec).method = "cached"
            /\ Val(h.rec).text_len = StrOf(read_text(Val(t)).len)
  /\ pc = "fetch" =>
       LET t == txt[Stem(rows[i])]
       IN t = None \/ read_text(Val(t)).len < params.min_len

\* a completed run that took from the cache an artifact of exactly min_len
\* characters, after an entry that it had to fetch
C7_Witness ==
  /\ RunDone
  /\ \E j, k \in 1..Len(hist) :
       /\ j < k
       /\ Did(hist[j], "net")
       /\ hist[k].hit
       /\ hist[k].steps = <<"probe">>
       /\ Val(hist[k].rec).text_len = StrOf(params.min_len)

ValidCatalog == \A k \in 1..Len(catalog) : ValidYear(catalog[k].year)

\* the run goes through its window in order, leaves nothing out and ends with
\* the merge
InOrder ==
  /\ pc # "aborted"
  /\ Len(hist) = i - 1
  /\ \A k \in 1..Len(hist) : hist[k].row = rows[k]
  /\ pc = "merge" \/ RunDone => Len(hist) = Len(rows)
  /\ RunDone => ledger = MergeLedger(Before, usable)

\* C8 as stated: with valid years no failure aborts the run, and an entry
\* with a fetch, extraction or fallback failure produces no record
C8_Original ==
  ValidCatalog =>
    /\ InOrder
    /\ \A k \in 1..Len(hist) : hist[k].fails # {} => hist[k].rec = None

\* C8 amended: with valid years no failure aborts the run; an entry whose
\* fetch or fallback failed produces no record, an entry whose extraction
\* failed produces one only from the fallback (method ocr) or, when min_len
\* is not positive, from its empty text (method pdf, text_len 0)
C8_NoAbort ==
  ValidCatalog =>
    /\ InOrder
    /\ \A k \in 1..Len(hist) :
         LET h == hist[k]
         IN /\ h.fails \cap {"fetch", "ocr"} # {} => h.rec = None
            /\ "extract" \in h.fails /\ h.rec # None =>
                 \/ Val(h.rec).method = "ocr"
                 \/ /\ params.min_len <= 0
                    /\ Val(h.rec).method = "pdf"
                    /\ Val(h.rec).text_len = StrOf(0)

\* a completed run whose first entry failed to fetch and whose second entry
\* failed to extract and was recovered by the fallback, now in the ledger
C8_Witness ==
  /\ RunDone
  /\ Len(hist) = 2
  /\ hist[1].fails = {"fetch"}
  /\ hist[2].fails = {"extract"}
  /\ hist[2].rec # None
  /\ hist[2].row.download_url \in UrlsOf(ledger)
  /\ hist[1].row.download_url \notin UrlsOf(ledger)

\* C9: the method of a record names the path its text came from, and its
\* text_len is the length of that text
C9_Method ==
  \A k \in 1..Len(hist) :
    LET h == hist[k]
    IN h.rec # None =>
         LET r == Val(h.rec)
         IN /\ r.method \in {"cached", "pdf", "ocr"}
            /\ r.method = "cached" <=> h.hit
            /\ r.method = "pdf" <=> (~h.hit /\ FastLen(h) >= params.min_len)
            /\ r.method = "ocr" <=> (/\ ~h.hit
                                     /\ FastLen(h) < params.min_len
                                     /\ params.use_ocr
                                     /\ h.ocr >= params.min_len)
            /\ r.method = "cached" => r.text_len = StrOf(read_text(Val(txt[Stem(h.row)])).len)
            /\ r.method = "pdf" => r.text_len = StrOf(FastLen(h))
            /\ r.method = "ocr" => r.text_len = StrOf(h.ocr)

\* a completed run with a record from the fallback and a record from the cache
C9_Witness ==
  /\ RunDone
  /\ \E j, k \in 1..Len(hist) :
       /\ hist[j].rec # None /\ Val(hist[j].rec).method = "ocr"
       /\ hist[k].rec # None /\ Val(hist[k].rec).method = "cached"

Count(s, u) == Cardinality({k \in 1..Len(s) : s[k].download_url = u})

\* C10 as stated: a run produces at most one record per download_url,
\* whatever the catalog
C10_Original == \A u \in URLs : Count(usable, u) <= 1

\* C10 amended: a run produces at most one record per row of its window, so
\* at most one per download_url when the rows have distinct download_urls;
\* for rows that share a download_url the merge keeps the last record
C10_PerRow ==
  /\ \A u \in URLs : Count(usable, u) <= Count(rows, u)
  /\ Len(usable) = Cardinality({k \in 1..Len(hist) : hist[k].rec # None})
  /\ RunDone =>
       \A u \in UrlsOf(usable) :
         \E k \in 1..Len(usable) :
           /\ usable[k].download_url = u
           /\ \A j \in (k + 1)..Len(usable) : usable[j].download_url # u
           /\ \E n \in 1..Len(ledger) : ledger[n] = usable[k]

\* a completed run over two rows of one download_url that produced two
\* different records for it
C10_Witness ==
  /\ RunDone
  /\ Len(usable) = 2
  /\ usable[1].download_url = usable[2].download_url
  /\ usable[1] # usable[2]
  /\ Len(ledger) = 1

\* pdftoppm exited with status 0 in the current ocr_pdf invocation
Rastered == opc \in {"pages", "returned"} \/ (opc = "raised" /\ engine # <<>>)

\* C11: the temporary directory of an ocr_pdf invocation exists only while
\* its with block runs; once the invocation has returned or raised (a program
\* is missing, pdftoppm exits non-zero, a tesseract call raises) no
\* temporary directory is left on disk
C11_WorkspaceRemoved ==
  /\ opc \in {"idle", "returned", "raised", "mkdtemp"} => tmpdirs = {}
  /\ opc \in {"pdftoppm", "pages"} => tmpdirs = {ocalls}

\* the second invocation ended by an exception of a tesseract call on its
\* second page, and nothing is left on disk
C11_Witness ==
  /\ ocalls = 2
  /\ opc = "raised"
  /\ Len(engine) = 2
  /\ engine[2].kind = "raise"
  /\ tmpdirs = {}

\* the output of the tesseract calls made so far, in call order
Outs == [j \in 1..Len(engine) |-> engine[j].out]

C12_FallbackFails ==
  /\ "ocr" \in cur.fails =>
       /\ pc = "decide"
       /\ Val(text).len = 0
       /\ ~Accepts(Val(text), params.min_len)
  /\ \A k \in 1..Len(hist) :
       LET h == hist[k]
       IN /\ "ocr" \in h.fails =>
               /\ h.ocr = -1
               /\ h.rec = None
               /\ ~h.wrote
               /\ params.min_len > 0
          /\ Did(h, "ocr") /\ tools = "missing" => "ocr" \in h.fails

\* a completed run in which the programs were missing for the first entry,
\* the second entry was still processed, and neither is in the ledger
C12_Witness ==
  /\ RunDone
  /\ tools = "missing"
  /\ Len(hist) = 2
  /\ hist[1].fails = {"ocr"}
  /\ Did(hist[2], "probe")
  /\ ledger = <<>>
  /\ \A st \in Stems : txt[st] = None

\* how many times the call was made for the entry
Times(h, step) == Cardinality({j \in 1..Len(h.steps) : h.steps[j] = step})

\* the conditions under which line 106 may have been reached for the entry
OcrDue(h) ==
  /\ ~h.hit
  /\ Did(h, "fetch")
  /\ "fetch" \notin h.fails
  /\ Did(h, "extract")
  /\ FastLen(h) < params.min_len
  /\ params.use_ocr

\* C13: ocr_pdf is called for an entry only if the entry was no cache hit,
\* its fetch succeeded, its fast text is shorter than min_len and the
\* fallback is enabled, and at most once per entry and run; with the
\* fallback disabled an entry whose fast text is shorter than min_len calls
\* no fallback and produces no record
C13_FallbackOnce ==
  /\ Did(cur, "ocr") => OcrDue(cur)
  /\ Times(cur, "ocr") <= 1
  /\ \A k \in 1..Len(hist) :
       LET h == hist[k]
       IN /\ Did(h, "ocr") => OcrDue(h)
          /\ Times(h, "ocr") <= 1
          /\ ~params.use_ocr /\ Did(h, "extract") /\ FastLen(h) < params.min_len =>
               /\ ~Did(h, "ocr")
               /\ h.rec = None

\* a run without the fallback dropped an entry whose fast text was too short,
\* and the next run, with the fallback, called it once for that entry and
\* accepted the entry
C13_Witness ==
  /\ RunDone
  /\ prev.done
  /\ ~prev.params.use_ocr
  /\ params.use_ocr
  /\ Len(hist) = 1
  /\ Len(prev.hist) = 1
  /\ prev.hist[1].fast >= 0
  /\ prev.hist[1].rec = None
  /\ Times(hist[1], "ocr") = 1
  /\ hist[1].rec # None

\* the smaller of two numbers
Min(a, b) == IF a < b THEN a ELSE b

\* C14: the entries a run processes are the positions offset+1 .. offset+limit
\* (counted from 1) of the catalog sorted by year descending, ties in
\* catalog order, in that order, for every limit given, limit = 0 selecting
\* no entry; without a limit they are all the positions from offset+1 on
C14_Window ==
  runs > 0 /\ pc # "aborted" =>
    LET s == SortCatalog(catalog)
        last == IF params.limit = NoLimit THEN Len(s)
                ELSE Min(params.offset + Val(params.limit), Len(s))
    IN /\ rows = SubSeq(s, params.offset + 1, last)
       /\ \A k \in 1..Len(hist) : hist[k].row = rows[k]

\* the pdf file of the stem exists and is not empty
OnDisk(st) == pdf[st] # NoUrl /\ remote[pdf[st]].size > 0

\* the calls made for the entry that is being processed, or that the step
\* has just finished
StepsAfter == IF hist' # hist THEN hist'[Len(hist')].steps ELSE cur'.steps

\* C15: download_pdf retrieves nothing and leaves the file as it is when the
\* file exists with a non-zero size, and otherwise makes exactly one
\* retrieval, into that file; so a pdf file that is on disk and not empty is
\* never retrieved again nor changed, by any entry of any run
C15_FetchSkip ==
  [][ /\ \A st \in Stems : OnDisk(st) => pdf'[st] = pdf[st]
      /\ pc = "fetch" =>
           LET st == Stem(rows[i])
           IN IF OnDisk(st)
              THEN /\ StepsAfter = cur.steps \o <<"fetch">>
                   /\ pdf' = pdf
                   /\ remote' = remote
              ELSE /\ StepsAfter = cur.steps \o <<"fetch", "net">>
                   /\ pdf'[st] \in {pdf[st], rows[i].download_url}
                   /\ \A o \in Stems \ {st} : pdf'[o] = pdf[o]
      /\ pc # "fetch" => pdf' = pdf
    ]_vars

\* an entry went through download_pdf without a retrieval, the pdf file
\* being there from an earlier entry with another download_url
C15_Witness ==
  /\ pc = "extract"
  /\ cur.steps = <<"probe", "fetch">>
  /\ OnDisk(Stem(rows[i]))
  /\ pdf[Stem(rows[i])] # rows[i].download_url

\* C17: as long as no run has read the ledger between another run's read
\* and write, every record a completed run accepted has a row in the ledger
\* under its download_url (its own or a later record for that download_url),
\* whatever runs came after; a record is missing only after such an
\* interleaving
C17_SingleWriter ==
  serial => \A rec \in accepted : rec.download_url \in UrlsOf(ledger)

\* two runs interleaved their read and write, both completed, and a record
\* one of them accepted is not in the ledger
C17_Witness ==
  /\ ~serial
  /\ \A p \in Procs : wpc[p] = "idle"
  /\ \E rec \in accepted : rec.download_url \notin UrlsOf(ledger)

\* C18: the text a cache hit accepts for an entry, and the text extracted or
\* recognised for an entry, come from the document of the entry's own
\* download_url, whatever the catalog and the earlier runs were
C18_OwnDocument ==
  /\ pc \in {"ocr", "decide"} => Val(text).url = rows[i].download_url
  /\ \A k \in 1..Len(hist) :
       hist[k].hit => Val(txt[Stem(hist[k].row)]).url = hist[k].row.download_url

\* C19: when a run repeats the completed run before it (same catalog, same
\* arguments, same sources), every entry that run accepted is accepted again,
\* with method cached and the same text_len; and when the run before it was
\* such a repetition too (it was at least the second run), the ledger is
\* left as that run left it
C19_FixedPoint ==
  /\ Repeated /\ prev.rep => ledger = Before
  /\ Repeated =>
       \A k \in 1..Len(prev.hist) :
         prev.hist[k].rec # None =>
           /\ hist[k].rec # None
           /\ Val(hist[k].rec).method = "cached"
           /\ Val(hist[k].rec).text_len = Val(prev.hist[k].rec).text_len

\* C20: after every completed run each ledger row's text_file exists and
\* holds as many characters as the row's text_len says, whatever windows and
\* min_len values the runs had; and a text file is written only for an
\* entry that is accepted
C20_LedgerMatchesDisk ==
  /\ \A k \in 1..Len(hist) : hist[k].wrote => hist[k].rec # None
  /\ RunDone =>
       \A n \in 1..Len(ledger) :
         LET t == txt[ledger[n].text_file]
         IN /\ t # None
            /\ ledger[n].text_len = StrOf(read_text(Val(t)).len)

====
